---- MODULE Spec2Model ----
(***************************************************************************)
(* Model of src/app.py: the PDF table extractor.                           *)
(*                                                                         *)
(* A string is a sequence of one-character strings.  Four specifications   *)
(* share the module:                                                       *)
(*   SpecMatch  find_pages_with_keywords / normalize_text                  *)
(*   SpecValid  contains_numbers_and_text                                  *)
(*   SpecNorm   the column cleaning loop of the export                     *)
(*   Spec       one run of the Streamlit script                            *)
(***************************************************************************)
EXTENDS Integers, Sequences, FiniteSets, TLC

VARIABLES
    \* find_pages_with_keywords(pdf_bytes, keywords)
    m_pc, m_pages, m_keywords, m_matched,
    \* contains_numbers_and_text(df)
    v_pc, v_df, v_result,
    \* column cleaning loop
    n_pc, n_col, n_out, n_again,
    \* the script run
    pc, extract_button, uploaded_file, keywords_input, keywords,
    matched_pages, tmp_files, page_str, tables, valid_tables, workbook,
    messages, download, shown, raised, calls

m_vars == <<m_pc, m_pages, m_keywords, m_matched>>
v_vars == <<v_pc, v_df, v_result>>
n_vars == <<n_pc, n_col, n_out, n_again>>
p_vars == <<pc, extract_button, uploaded_file, keywords_input, keywords,
            matched_pages, tmp_files, page_str, tables, valid_tables,
            workbook, messages, download, shown, raised, calls>>
vars == <<m_vars, v_vars, n_vars, p_vars>>

(***************************************************************************)
(* Bounds.                                                                 *)
(***************************************************************************)
MaxPages == 2
MaxKeywords == 2

SeqsUpTo(S, n) == UNION {[1..k -> S] : k \in 0..n}

Range(s) == {s[i] : i \in 1..Len(s)}

(***************************************************************************)
(* Python str methods.                                                     *)
(***************************************************************************)
\* str.lower() on one character (the letters the inputs use).
LowerChar(c) ==
    CASE c = "A" -> "a"
      [] c = "B" -> "b"
      [] c = "N" -> "n"
      [] OTHER -> c

str_lower(s) == [i \in 1..Len(s) |-> LowerChar(s[i])]

\* The characters str.split() and str.strip() treat as whitespace.
IsSpace(c) == c \in {" ", "\n", "\t"}

RECURSIVE SplitWs(_, _, _)
SplitWs(s, cur, acc) ==
    IF s = <<>>
    THEN IF cur = <<>> THEN acc ELSE Append(acc, cur)
    ELSE IF IsSpace(Head(s))
         THEN SplitWs(Tail(s), <<>>, IF cur = <<>> THEN acc ELSE Append(acc, cur))
         ELSE SplitWs(Tail(s), Append(cur, Head(s)), acc)

\* str.split() without arguments: the maximal runs of non-whitespace.
str_split(s) == SplitWs(s, <<>>, <<>>)

RECURSIVE str_join(_, _)
\* sep.join(items)
str_join(sep, items) ==
    IF items = <<>> THEN <<>>
    ELSE IF Len(items) = 1 THEN items[1]
    ELSE items[1] \o sep \o str_join(sep, Tail(items))

\* k in t
str_in(k, t) ==
    \E i \in 0..(Len(t) - Len(k)) : SubSeq(t, i + 1, i + Len(k)) = k

(***************************************************************************)
(* normalize_text and find_pages_with_keywords.                            *)
(***************************************************************************)
normalize_text(text) == str_join(<<" ">>, str_split(str_lower(text)))

AnyKeywordIn(text, kws) ==
    \E i \in 1..Len(kws) : str_in(str_lower(kws[i]), text)

AllKeywordsRawIn(text, kws) ==
    \A i \in 1..Len(kws) : str_in(kws[i], text)

\* all(keyword.lower() in text for keyword in keywords)
AllKeywordsIn(text, kws) ==
    \A i \in 1..Len(kws) : str_in(str_lower(kws[i]), text)

RECURSIVE FindPagesLoop(_, _, _, _)
\* The for loop over enumerate(doc, start=1).
FindPagesLoop(pages, kws, page_num, matched) ==
    IF page_num > Len(pages) THEN matched
    ELSE FindPagesLoop(pages, kws, page_num + 1,
            IF AllKeywordsIn(normalize_text(pages[page_num]), kws)
            THEN Append(matched, page_num)
            ELSE matched)

find_pages_with_keywords(pages, kws) == FindPagesLoop(pages, kws, 1, <<>>)

\* Page texts as page.get_text("text") may return them.
PageTexts ==
    { <<>>,
      <<"A", "b", "a">>,
      <<"a", " ", "\n", "B">>,
      <<" ", "b", "\n", "a", " ">>,
      <<"b">> }

KeywordTexts ==
    { <<"a">>,
      <<"A", "B">>,
      <<"a", " ", "b">>,
      <<"a", " ", " ", "b">>,
      <<"B", " ">> }

MatchInit ==
    /\ m_pc = "call"
    /\ m_pages \in SeqsUpTo(PageTexts, MaxPages)
    /\ m_keywords \in SeqsUpTo(KeywordTexts, MaxKeywords)
    /\ m_matched = <<>>

MatchIdle ==
    /\ m_pc = "idle"
    /\ m_pages = <<>>
    /\ m_keywords = <<>>
    /\ m_matched = <<>>

FindPages ==
    /\ m_pc = "call"
    /\ m_matched' = find_pages_with_keywords(m_pages, m_keywords)
    /\ m_pc' = "done"
    /\ UNCHANGED <<m_pages, m_keywords>>
    /\ UNCHANGED <<v_vars, n_vars, p_vars>>

(***************************************************************************)
(* contains_numbers_and_text.                                              *)
(*                                                                         *)
(* A DataFrame of string cells is [rows, cols, cells], cells[i][j] the     *)
(* cell of row i and column j.  A character outside ASCII is written as    *)
(* its code point, "U+212A".                                               *)
(***************************************************************************)
MaxRows == 2
MaxCols == 2

Digits == {"0", "1", "2", "3", "4", "5", "6", "7", "8", "9"}

AsciiLetters ==
    {"a", "b", "c", "d", "e", "f", "g", "h", "i", "j", "k", "l", "m",
     "n", "o", "p", "q", "r", "s", "t", "u", "v", "w", "x", "y", "z",
     "A", "B", "C", "D", "E", "F", "G", "H", "I", "J", "K", "L", "M",
     "N", "O", "P", "Q", "R", "S", "T", "U", "V", "W", "X", "Y", "Z"}

\* Under re.IGNORECASE a str pattern [A-Za-z] also matches the four
\* non-ASCII characters whose case folding is an ASCII letter:
\* U+0130, U+0131 (dotted I, dotless i), U+017F (long s), U+212A (Kelvin sign).
FoldsToAsciiLetter == {"U+0130", "U+0131", "U+017F", "U+212A"}

\* re.search(r'\d', cell) is not None
MatchesDigit(cell) == \E k \in 1..Len(cell) : cell[k] \in Digits

\* re.search(r'[A-Za-z]', cell, re.IGNORECASE) is not None  (case=False)
MatchesLetter(cell) ==
    \E k \in 1..Len(cell) : cell[k] \in AsciiLetters \cup FoldsToAsciiLetter

\* With an empty axis DataFrame.apply calls the function on no column and
\* gives a Series without a True in it.
EmptyAxis(df) == df.rows = 0 \/ df.cols = 0

\* df.apply(lambda col: col.astype(str).str.contains(r'\d').any(), axis=0).any()
has_number(df) ==
    IF EmptyAxis(df) THEN FALSE
    ELSE \E j \in 1..df.cols : \E i \in 1..df.rows : MatchesDigit(df.cells[i][j])

\* df.apply(lambda col: col.astype(str).str.contains(r'[A-Za-z]', case=False).any(),
\*          axis=0).any()
has_text(df) ==
    IF EmptyAxis(df) THEN FALSE
    ELSE \E j \in 1..df.cols : \E i \in 1..df.rows : MatchesLetter(df.cells[i][j])

contains_numbers_and_text(df) == has_number(df) /\ has_text(df)

GridCells ==
    { <<>>,
      <<"1", "2">>,
      <<"a", "b">>,
      <<"A", "1">>,
      <<"-">>,
      <<"U+00E9">>,
      <<"U+212A">> }

DataFrames(Cells, maxRows, maxCols) ==
    UNION { { [rows |-> r, cols |-> c, cells |-> g] : g \in [1..r -> [1..c -> Cells]] }
            : r \in 0..maxRows, c \in 0..maxCols }

ValidInit ==
    /\ v_pc = "call"
    /\ v_df \in DataFrames(GridCells, MaxRows, MaxCols)
    /\ v_result = FALSE

ValidIdle ==
    /\ v_pc = "idle"
    /\ v_df = [rows |-> 0, cols |-> 0, cells |-> <<>>]
    /\ v_result = FALSE

Validate ==
    /\ v_pc = "call"
    /\ v_result' = contains_numbers_and_text(v_df)
    /\ v_pc' = "done"
    /\ UNCHANGED v_df
    /\ UNCHANGED <<m_vars, n_vars, p_vars>>

(***************************************************************************)
(* The column cleaning loop.                                               *)
(*                                                                         *)
(* A cell value is [t, s, m, e, f]: a string (t = "str", s its text) or a  *)
(* number (t = "num") of value m / 10^e, m and e in lowest terms, f saying *)
(* that it is a float.                                                     *)
(***************************************************************************)
MaxColLen == 2

StrVal(s) == [t |-> "str", s |-> s, m |-> 0, e |-> 0, f |-> FALSE]

NumVal(m, e, f) == [t |-> "num", s |-> <<>>, m |-> m, e |-> e, f |-> f]

RECURSIVE str_replace_all(_, _)
\* s.replace(old, ''), old one character
str_replace_all(s, old) ==
    IF s = <<>> THEN <<>>
    ELSE IF Head(s) = old THEN str_replace_all(Tail(s), old)
    ELSE <<Head(s)>> \o str_replace_all(Tail(s), old)

RECURSIVE str_lstrip(_)
str_lstrip(s) ==
    IF s # <<>> /\ IsSpace(Head(s)) THEN str_lstrip(Tail(s)) ELSE s

RECURSIVE str_rstrip(_)
str_rstrip(s) ==
    IF s # <<>> /\ IsSpace(s[Len(s)]) THEN str_rstrip(SubSeq(s, 1, Len(s) - 1)) ELSE s

\* s.strip()
str_strip(s) == str_rstrip(str_lstrip(s))

DigitSeq == <<"0", "1", "2", "3", "4", "5", "6", "7", "8", "9">>

DigitVal(c) == (CHOOSE k \in 1..10 : DigitSeq[k] = c) - 1

RECURSIVE DigitsValue(_, _)
DigitsValue(ds, acc) ==
    IF ds = <<>> THEN acc ELSE DigitsValue(Tail(ds), 10 * acc + DigitVal(Head(ds)))

RECURSIVE Reduce(_, _)
\* m / 10^e in lowest terms
Reduce(m, e) ==
    IF e > 0 /\ m % 10 = 0 THEN Reduce(m \div 10, e - 1) ELSE <<m, e>>

\* The float parser behind pd.to_numeric on one string: an optional sign,
\* decimal digits with at most one point, at least one digit.  ok = FALSE is
\* the NaN that errors='coerce' puts in place of what does not parse; the
\* empty string gives NaN as well.
ParseNumber(s) ==
    LET signed == s # <<>> /\ s[1] \in {"-", "+"}
        body == IF signed THEN Tail(s) ELSE s
        points == {k \in 1..Len(body) : body[k] = "."}
        digs == SelectSeq(body, LAMBDA c : c # ".")
        ok == /\ digs # <<>>
              /\ \A k \in 1..Len(digs) : digs[k] \in Digits
              /\ Cardinality(points) <= 1
        scale == IF points = {} THEN 0
                 ELSE Len(body) - (CHOOSE k \in points : TRUE)
        mag == IF ok THEN DigitsValue(digs, 0) ELSE 0
        red == Reduce(mag, scale)
    IN  [ok |-> ok,
         m |-> IF signed /\ s[1] = "-" THEN 0 - red[1] ELSE red[1],
         e |-> red[2],
         isfloat |-> points # {}]

RECURSIVE NatStr(_)
\* str(n), n a natural number
NatStr(n) ==
    IF n < 10 THEN <<DigitSeq[n + 1]>>
    ELSE NatStr(n \div 10) \o <<DigitSeq[(n % 10) + 1]>>

RECURSIVE Pow10(_)
Pow10(e) == IF e = 0 THEN 1 ELSE 10 * Pow10(e - 1)

RECURSIVE ZeroPad(_, _)
ZeroPad(ds, width) == IF Len(ds) >= width THEN ds ELSE ZeroPad(<<"0">> \o ds, width)

\* str(v) of a cell value, as astype(str) applies it
AsStr(v) ==
    IF v.t = "str" THEN v.s
    ELSE LET a == IF v.m < 0 THEN 0 - v.m ELSE v.m
             ip == a \div Pow10(v.e)
             fp == a % Pow10(v.e)
         IN  (IF v.m < 0 THEN <<"-">> ELSE <<>>)
             \o NatStr(ip)
             \o (IF ~v.f THEN <<>>
                 ELSE IF v.e = 0 THEN <<".", "0">>
                 ELSE <<".">> \o ZeroPad(NatStr(fp), v.e))

\* strip first, then remove the commas
CleanCellStripFirst(v) == str_replace_all(str_strip(AsStr(v)), ",")

\* processed_df[col].astype(str).str.replace(',', '').str.strip(), one cell
CleanCell(v) == str_strip(str_replace_all(AsStr(v), ","))

\* The column is numeric only if every cell parses; otherwise all cleaned strings.
FillColumnAllOrNothing(numeric_col, cleaned_col) ==
    IF \A i \in 1..Len(cleaned_col) : numeric_col[i].ok
    THEN [i \in 1..Len(cleaned_col) |->
            NumVal(numeric_col[i].m, numeric_col[i].e,
                   \E k \in 1..Len(numeric_col) : numeric_col[k].isfloat)]
    ELSE [i \in 1..Len(cleaned_col) |-> StrVal(cleaned_col[i])]

\* numeric_col.fillna(cleaned_col): each NaN is replaced by the cleaned
\* string at the same index.  The numbers are int64 when every cell parsed
\* as an integer and float64 otherwise.
FillColumn(numeric_col, cleaned_col) ==
    LET float == \E k \in 1..Len(numeric_col) :
                    ~numeric_col[k].ok \/ numeric_col[k].isfloat
    IN  [i \in 1..Len(cleaned_col) |->
            IF numeric_col[i].ok
            THEN NumVal(numeric_col[i].m, numeric_col[i].e, float)
            ELSE StrVal(cleaned_col[i])]

\* One pass of the loop body over one column.
NormalizeColumn(col) ==
    LET cleaned_col == [i \in 1..Len(col) |-> CleanCell(col[i])]
        numeric_col == [i \in 1..Len(col) |-> ParseNumber(cleaned_col[i])]
    IN  FillColumn(numeric_col, cleaned_col)

\* Cells as the extraction engine returns them.
ColumnCells ==
    { <<"1", ",", "2", "0", "0">>,
      <<" ", "5", " ">>,
      <<"N", "/", "A">>,
      <<>>,
      <<"-", "1", ".", "5">>,
      <<",", " ", "a">>,
      <<",", ",", " ">>,
      <<"1", " ", "2">>,
      <<"+", "3">>,
      <<"1", ".", "5", "0">>,
      <<".">>,
      <<"-", ",">> }

NormInit ==
    /\ n_pc = "call"
    /\ n_col \in {[i \in 1..Len(c) |-> StrVal(c[i])] : c \in SeqsUpTo(ColumnCells, MaxColLen)}
    /\ n_out = <<>>
    /\ n_again = <<>>

NormIdle ==
    /\ n_pc = "idle"
    /\ n_col = <<>>
    /\ n_out = <<>>
    /\ n_again = <<>>

Normalize ==
    /\ n_pc = "call"
    /\ n_out' = NormalizeColumn(n_col)
    /\ n_pc' = "normalized"
    /\ UNCHANGED <<n_col, n_again>>
    /\ UNCHANGED <<m_vars, v_vars, p_vars>>

\* The loop body applied to its own output.
NormalizeAgain ==
    /\ n_pc = "normalized"
    /\ n_again' = NormalizeColumn(n_out)
    /\ n_pc' = "renormalized"
    /\ UNCHANGED <<n_col, n_out>>
    /\ UNCHANGED <<m_vars, v_vars, p_vars>>

(***************************************************************************)
(* One run of the script (lines 53-115).                                   *)
(*                                                                         *)
(* The widgets' values are the inputs of a run.  calls is the log of the   *)
(* calls the run makes to the page matcher, the temporary file, the        *)
(* extraction engine and the spreadsheet writer.                            *)
(***************************************************************************)
MaxTables == 2

NoFile == [uploaded |-> FALSE, pages |-> <<>>]

Upload(pages) == [uploaded |-> TRUE, pages |-> pages]

EmptyDf == [rows |-> 0, cols |-> 0, cells |-> <<>>]

TmpPath == "tmp.pdf"

RECURSIVE SplitOn(_, _, _, _)
SplitOn(s, sep, cur, acc) ==
    IF s = <<>> THEN Append(acc, cur)
    ELSE IF Head(s) = sep THEN SplitOn(Tail(s), sep, <<>>, Append(acc, cur))
    ELSE SplitOn(Tail(s), sep, Append(cur, Head(s)), acc)

\* s.split(sep), sep one character: empty pieces are kept
str_split_on(s, sep) == SplitOn(s, sep, <<>>, <<>>)

\* [keyword.strip() for keyword in keywords_input.split('\n')]
StripAllLines(input) ==
    LET lines == str_split_on(input, "\n")
    IN  [i \in 1..Len(lines) |-> str_strip(lines[i])]

\* The empty lines are kept.
KeywordListUnfiltered(input) == StripAllLines(input)

\* [keyword.strip() for keyword in keywords_input.split('\n') if keyword.strip()]
BuildKeywordList(input) ==
    SelectSeq(StripAllLines(input), LAMBDA k : k # <<>>)

NeverEmpty(xs) == FALSE

\* not keywords
NoKeywordsEntered(kws) == Len(kws) = 0

\* not matched_pages
NoPagesMatched(mp) == Len(mp) = 0

\* not valid_tables
NoValidTables(vt) == Len(vt) = 0

\* ",".join(map(str, matched_pages))
PageString(mp) == str_join(<<",">>, [i \in 1..Len(mp) |-> NatStr(mp[i])])

\* The temporary file is removed only when the extraction returned.
TmpFilesAfterReadNoFinally(files, exc) ==
    IF exc = "none" THEN files \ {TmpPath} ELSE files

\* finally: os.remove(tmp_path), whether or not read_pdf raised
TmpFilesAfterRead(files, exc) == files \ {TmpPath}

RECURSIVE FilterLoop(_, _, _)
FilterLoop(ts, i, acc) ==
    IF i > Len(ts) THEN acc
    ELSE FilterLoop(ts, i + 1,
            IF contains_numbers_and_text(ts[i]) THEN Append(acc, ts[i]) ELSE acc)

\* [table.df for table in tables if contains_numbers_and_text(table.df)]
FilterValid(ts) == FilterLoop(ts, 1, <<>>)

\* enumerate(valid_tables, start=0)
SheetNameFromZero(i) == <<"T", "a", "b", "l", "e", "_">> \o NatStr(i - 1)

\* f"Table_{i}"
SheetName(i) == <<"T", "a", "b", "l", "e", "_">> \o NatStr(i)

\* processed_df = df.copy() and the loop over its columns
ProcessDf(df) ==
    LET Column(j) == [i \in 1..df.rows |-> StrVal(df.cells[i][j])]
    IN  [rows |-> df.rows, cols |-> df.cols,
         cells |-> [i \in 1..df.rows |-> [j \in 1..df.cols |->
                        NormalizeColumn(Column(j))[i]]]]

RECURSIVE ExportLoop(_, _, _)
\* for i, df in enumerate(valid_tables, start=1): ... to_excel(sheet_name=...)
ExportLoop(vt, i, sheets) ==
    IF i > Len(vt) THEN sheets
    ELSE ExportLoop(vt, i + 1,
            Append(sheets, [name |-> SheetName(i), data |-> ProcessDf(vt[i])]))

\* What the user typed into the keywords text area.
KeywordInputs ==
    { <<>>,
      <<" ", "\n", "\t", " ">>,
      <<"a", "\n", " ", "B", " ", "\n", "\n">>,
      <<" ", "a", " ", "b">>,
      <<"A", "B">> }

\* Grids as camelot returns them in table.df.
TableGrids ==
    { [rows |-> 2, cols |-> 2,
       cells |-> << <<<<"a", "b">>, <<"N", "/", "A">>>>,
                    <<<<"b">>, <<"1", ",", "2", "0", "0">>>> >>],
      [rows |-> 1, cols |-> 2,
       cells |-> << <<<<"1", "2">>, <<" ", "5", " ">>>> >>],
      [rows |-> 2, cols |-> 1,
       cells |-> << <<<<"a">>>>, <<<<",", " ", "a">>>> >>],
      [rows |-> 1, cols |-> 1, cells |-> << <<<<"A", "1">>>> >>],
      EmptyDf }

Msg(kind, text) == [kind |-> kind, text |-> text]

Init ==
    /\ MatchIdle /\ ValidIdle /\ NormIdle
    /\ pc = "start"
    /\ extract_button \in BOOLEAN
    /\ uploaded_file \in {NoFile} \cup {Upload(d) : d \in SeqsUpTo(PageTexts, MaxPages)}
    /\ keywords_input \in KeywordInputs
    /\ keywords = <<>>
    /\ matched_pages = <<>>
    /\ tmp_files = {}
    /\ page_str = <<>>
    /\ tables = <<>>
    /\ valid_tables = <<>>
    /\ workbook = <<>>
    /\ messages = <<>>
    /\ download = <<>>
    /\ shown = <<>>
    /\ raised = "none"
    /\ calls = <<>>

Others == <<m_vars, v_vars, n_vars>>

\* Neither branch of the if/elif: the button was not pressed.
NotPressed ==
    /\ pc = "start"
    /\ ~extract_button
    /\ pc' = "done"
    /\ UNCHANGED <<extract_button, uploaded_file, keywords_input, keywords,
                   matched_pages, tmp_files, page_str, tables, valid_tables,
                   workbook, messages, download, shown, raised, calls>>
    /\ UNCHANGED Others

\* elif extract_button and uploaded_file is None
NoUpload ==
    /\ pc = "start"
    /\ extract_button /\ ~uploaded_file.uploaded
    /\ messages' = Append(messages, Msg("warning", "Please upload a PDF file first."))
    /\ pc' = "done"
    /\ UNCHANGED <<extract_button, uploaded_file, keywords_input, keywords,
                   matched_pages, tmp_files, page_str, tables, valid_tables,
                   workbook, download, shown, raised, calls>>
    /\ UNCHANGED Others

\* if extract_button and uploaded_file is not None: keywords = [...]
BuildKeywords ==
    /\ pc = "start"
    /\ extract_button /\ uploaded_file.uploaded
    /\ keywords' = BuildKeywordList(keywords_input)
    /\ pc' = "keywords"
    /\ UNCHANGED <<extract_button, uploaded_file, keywords_input,
                   matched_pages, tmp_files, page_str, tables, valid_tables,
                   workbook, messages, download, shown, raised, calls>>
    /\ UNCHANGED Others

\* if not keywords: st.warning(...)
WarnNoKeywords ==
    /\ pc = "keywords"
    /\ NoKeywordsEntered(keywords)
    /\ messages' = Append(messages, Msg("warning", "Please enter at least one keyword."))
    /\ pc' = "done"
    /\ UNCHANGED <<extract_button, uploaded_file, keywords_input, keywords,
                   matched_pages, tmp_files, page_str, tables, valid_tables,
                   workbook, download, shown, raised, calls>>
    /\ UNCHANGED Others

\* matched_pages = find_pages_with_keywords(pdf_bytes, keywords)
MatchPages ==
    /\ pc = "keywords"
    /\ ~NoKeywordsEntered(keywords)
    /\ matched_pages' = find_pages_with_keywords(uploaded_file.pages, keywords)
    /\ calls' = Append(calls, [fn |-> "find_pages_with_keywords", arg |-> keywords])
    /\ pc' = "matched"
    /\ UNCHANGED <<extract_button, uploaded_file, keywords_input, keywords,
                   tmp_files, page_str, tables, valid_tables,
                   workbook, messages, download, shown, raised>>
    /\ UNCHANGED Others

\* if not matched_pages: st.warning(...)
WarnNoPages ==
    /\ pc = "matched"
    /\ NoPagesMatched(matched_pages)
    /\ messages' = Append(messages,
           Msg("warning", "No pages found containing all the specified keywords."))
    /\ pc' = "done"
    /\ UNCHANGED <<extract_button, uploaded_file, keywords_input, keywords,
                   matched_pages, tmp_files, page_str, tables, valid_tables,
                   workbook, download, shown, raised, calls>>
    /\ UNCHANGED Others

\* st.info(...), then the with block that writes the temporary file
WriteTempFile ==
    /\ pc = "matched"
    /\ ~NoPagesMatched(matched_pages)
    /\ messages' = Append(messages, Msg("info", "Keywords found on pages"))
    /\ tmp_files' = tmp_files \cup {TmpPath}
    /\ calls' = Append(calls, [fn |-> "NamedTemporaryFile", arg |-> <<>>])
    /\ pc' = "try"
    /\ UNCHANGED <<extract_button, uploaded_file, keywords_input, keywords,
                   matched_pages, page_str, tables, valid_tables,
                   workbook, download, shown, raised>>
    /\ UNCHANGED Others

\* tables = camelot.read_pdf(tmp_path, pages=page_str, flavor="stream") returns
ReadPdfReturns ==
    /\ pc = "try"
    /\ page_str' = PageString(matched_pages)
    /\ calls' = Append(calls, [fn |-> "camelot.read_pdf", arg |-> page_str'])
    /\ \E ts \in SeqsUpTo(TableGrids, MaxTables) : tables' = ts
    /\ pc' = "finally"
    /\ UNCHANGED <<extract_button, uploaded_file, keywords_input, keywords,
                   matched_pages, tmp_files, valid_tables,
                   workbook, messages, download, shown, raised>>
    /\ UNCHANGED Others

\* camelot.read_pdf raises
ReadPdfRaises ==
    /\ pc = "try"
    /\ page_str' = PageString(matched_pages)
    /\ calls' = Append(calls, [fn |-> "camelot.read_pdf", arg |-> page_str'])
    /\ raised' = "read_pdf"
    /\ pc' = "finally"
    /\ UNCHANGED <<extract_button, uploaded_file, keywords_input, keywords,
                   matched_pages, tmp_files, tables, valid_tables,
                   workbook, messages, download, shown>>
    /\ UNCHANGED Others

\* The finally clause; a pending exception then ends the run.
Finally ==
    /\ pc = "finally"
    /\ tmp_files' = TmpFilesAfterRead(tmp_files, raised)
    /\ pc' = IF raised = "none" THEN "filter" ELSE "failed"
    /\ UNCHANGED <<extract_button, uploaded_file, keywords_input, keywords,
                   matched_pages, page_str, tables, valid_tables,
                   workbook, messages, download, shown, raised, calls>>
    /\ UNCHANGED Others

\* valid_tables = [...]
FilterTables ==
    /\ pc = "filter"
    /\ valid_tables' = FilterValid(tables)
    /\ pc' = "filtered"
    /\ UNCHANGED <<extract_button, uploaded_file, keywords_input, keywords,
                   matched_pages, tmp_files, page_str, tables,
                   workbook, messages, download, shown, raised, calls>>
    /\ UNCHANGED Others

\* if not valid_tables: st.warning(...)
WarnNoValidTables ==
    /\ pc = "filtered"
    /\ NoValidTables(valid_tables)
    /\ messages' = Append(messages,
           Msg("warning", "Found matching pages, but could not extract valid tables from them."))
    /\ pc' = "done"
    /\ UNCHANGED <<extract_button, uploaded_file, keywords_input, keywords,
                   matched_pages, tmp_files, page_str, tables, valid_tables,
                   workbook, download, shown, raised, calls>>
    /\ UNCHANGED Others

\* st.success(...), the ExcelWriter block and st.download_button(...)
Export ==
    /\ pc = "filtered"
    /\ ~NoValidTables(valid_tables)
    /\ messages' = Append(messages, Msg("success", "Successfully extracted valid table(s)!"))
    /\ workbook' = ExportLoop(valid_tables, 1, <<>>)
    /\ calls' = Append(calls, [fn |-> "pd.ExcelWriter", arg |-> <<>>])
    /\ download' = workbook'
    /\ pc' = "display"
    /\ UNCHANGED <<extract_button, uploaded_file, keywords_input, keywords,
                   matched_pages, tmp_files, page_str, tables, valid_tables,
                   shown, raised>>
    /\ UNCHANGED Others

\* for i, df in enumerate(valid_tables, start=1): st.subheader, st.dataframe
Display ==
    /\ pc = "display"
    /\ shown' = valid_tables
    /\ pc' = "done"
    /\ UNCHANGED <<extract_button, uploaded_file, keywords_input, keywords,
                   matched_pages, tmp_files, page_str, tables, valid_tables,
                   workbook, messages, download, raised, calls>>
    /\ UNCHANGED Others

Next ==
    \/ NotPressed \/ NoUpload \/ BuildKeywords \/ WarnNoKeywords \/ MatchPages
    \/ WarnNoPages \/ WriteTempFile \/ ReadPdfReturns \/ ReadPdfRaises \/ Finally
    \/ FilterTables \/ WarnNoValidTables \/ Export \/ Display

Spec == Init /\ [][Next]_vars

PipelineIdle ==
    /\ pc = "idle"
    /\ extract_button = FALSE
    /\ uploaded_file = NoFile
    /\ keywords_input = <<>>
    /\ keywords = <<>>
    /\ matched_pages = <<>>
    /\ tmp_files = {}
    /\ page_str = <<>>
    /\ tables = <<>>
    /\ valid_tables = <<>>
    /\ workbook = <<>>
    /\ messages = <<>>
    /\ download = <<>>
    /\ shown = <<>>
    /\ raised = "none"
    /\ calls = <<>>

InitMatch == MatchInit /\ ValidIdle /\ NormIdle /\ PipelineIdle

SpecMatch == InitMatch /\ [][FindPages]_vars

InitValid == MatchIdle /\ ValidInit /\ NormIdle /\ PipelineIdle

SpecValid == InitValid /\ [][Validate]_vars

InitNorm == MatchIdle /\ ValidIdle /\ NormInit /\ PipelineIdle

NextNorm == Normalize \/ NormalizeAgain

SpecNorm == InitNorm /\ [][NextNorm]_vars

(***************************************************************************)
(* Properties of find_pages_with_keywords (SpecMatch).                     *)
(***************************************************************************)
\* keyword k, lowercased character by character, occurs in t at some offset
LoweredOccursIn(k, t) ==
    \E o \in 0..(Len(t) - Len(k)) : \A i \in 1..Len(k) : t[o + i] = LowerChar(k[i])

\* C1: the result holds exactly the page numbers whose normalized text
\* contains every lowercased keyword as a substring, in ascending order and
\* without a repeat.
C1_MatchedExactlyInOrder ==
    m_pc = "done" =>
        /\ \A p \in 1..Len(m_pages) :
              (p \in Range(m_matched)) <=>
                  \A k \in 1..Len(m_keywords) :
                      LoweredOccursIn(m_keywords[k], normalize_text(m_pages[p]))
        /\ Range(m_matched) \subseteq 1..Len(m_pages)
        /\ \A i, j \in 1..Len(m_matched) : i < j => m_matched[i] < m_matched[j]

\* Keyword "AB" matches page 1 "Aba" (other case, inside a longer word) and
\* not page 2 "b".
C1_Witness ==
    /\ m_pc = "done"
    /\ m_keywords = << <<"A", "B">> >>
    /\ m_pages = << <<"A", "b", "a">>, <<"b">> >>
    /\ m_matched = <<1>>

\* C4: with an empty keyword list every page number 1..N is returned, in
\* document order.
C4_EmptyKeywordsMatchAll ==
    (m_pc = "done" /\ m_keywords = <<>>) =>
        m_matched = [i \in 1..Len(m_pages) |-> i]

C4_Witness ==
    /\ m_pc = "done"
    /\ m_keywords = <<>>
    /\ Len(m_pages) = MaxPages
    /\ m_matched = [i \in 1..MaxPages |-> i]

(***************************************************************************)
(* Properties of contains_numbers_and_text (SpecValid).                    *)
(***************************************************************************)
CellsOf(df) == {df.cells[i][j] : i \in 1..df.rows, j \in 1..df.cols}

HasDecimalDigit(cell) == \E k \in 1..Len(cell) : cell[k] \in Digits

HasAsciiLetter(cell) == \E k \in 1..Len(cell) : cell[k] \in AsciiLetters

\* C3: the validator returns true iff some cell contains a decimal digit and
\* some cell contains an ASCII letter; false for an empty grid.
C3_TrueIffDigitAndAsciiLetter ==
    v_pc = "done" =>
        (v_result <=> ((\E c \in CellsOf(v_df) : HasDecimalDigit(c))
                      /\ (\E c \in CellsOf(v_df) : HasAsciiLetter(c))))

(***************************************************************************)
(* Properties of the column cleaning loop (SpecNorm).                      *)
(***************************************************************************)
\* The text with its commas removed and then its ends trimmed.
CleanedText(s) ==
    LET nc == SelectSeq(s, LAMBDA c : c # ",")
        ink == {k \in 1..Len(nc) : ~IsSpace(nc[k])}
    IN  IF ink = {} THEN <<>>
        ELSE SubSeq(nc, CHOOSE k \in ink : \A l \in ink : k <= l,
                        CHOOSE k \in ink : \A l \in ink : l <= k)

Parses(s) == ParseNumber(s).ok

C9_RenormalizeStringsNoOp ==
    (n_pc = "renormalized" /\ \A i \in 1..Len(n_out) : n_out[i].t = "str") =>
        n_again = n_out

\* [", a", "N/A"] gives ["a", "N/A"], and again ["a", "N/A"].
C9_Witness ==
    /\ n_pc = "renormalized"
    /\ n_col = << StrVal(<<",", " ", "a">>), StrVal(<<"N", "/", "A">>) >>
    /\ n_out = << StrVal(<<"a">>), StrVal(<<"N", "/", "A">>) >>
    /\ n_again = n_out

(***************************************************************************)
(* Properties of a run of the script (Spec).                               *)
(***************************************************************************)
Called(fn) == \E i \in 1..Len(calls) : calls[i].fn = fn

LastMessage == messages[Len(messages)]

AllWhitespace(s) == \A k \in 1..Len(s) : IsSpace(s[k])

Trimmed(k) == k # <<>> /\ ~IsSpace(k[1]) /\ ~IsSpace(k[Len(k)])

\* C5: the page matcher is called only with the button pressed, a file
\* uploaded and a non-empty list of non-empty trimmed keywords; an input of
\* only empty or whitespace lines ends the run with a warning, and no page
\* matching, extraction or spreadsheet writing takes place.
C5_MatcherGuarded ==
    /\ \A i \in 1..Len(calls) :
          calls[i].fn = "find_pages_with_keywords" =>
              /\ extract_button /\ uploaded_file.uploaded
              /\ calls[i].arg # <<>>
              /\ \A k \in 1..Len(calls[i].arg) : Trimmed(calls[i].arg[k])
    /\ AllWhitespace(keywords_input) =>
          /\ calls = <<>> /\ tmp_files = {} /\ workbook = <<>> /\ download = <<>>
          /\ (pc = "done" /\ extract_button) =>
                /\ Len(messages) = 1
                /\ LastMessage.kind = "warning"
                /\ uploaded_file.uploaded =>
                      LastMessage.text = "Please enter at least one keyword."

C5_Witness ==
    /\ pc = "done"
    /\ extract_button /\ uploaded_file.uploaded
    /\ keywords_input = <<" ", "\n", "\t", " ">>
    /\ messages = << Msg("warning", "Please enter at least one keyword.") >>
    /\ calls = <<>>

\* The page numbers a pages= argument names.
PagesOf(s) ==
    LET parts == str_split_on(s, ",")
    IN  [i \in 1..Len(parts) |-> DigitsValue(parts[i], 0)]

C6_State ==
    /\ (Called("find_pages_with_keywords") /\ matched_pages = <<>>) =>
          /\ pc \in {"matched", "done"}
          /\ ~Called("NamedTemporaryFile") /\ ~Called("camelot.read_pdf")
          /\ ~Called("pd.ExcelWriter")
          /\ tmp_files = {} /\ workbook = <<>>
    /\ \A i \in 1..Len(calls) :
          calls[i].fn = "camelot.read_pdf" =>
              /\ matched_pages # <<>>
              /\ \A k \in 1..Len(calls[i].arg) : calls[i].arg[k] \in Digits \cup {","}
              /\ PagesOf(calls[i].arg) = matched_pages

\* C6: when the page matcher returns no page the next step ends the run,
\* and no temporary file, extraction or spreadsheet ever exists in it; the
\* extraction engine is called only with a non-empty page list naming
\* exactly the matched pages.
C6_NoExtractionWithoutPages ==
    /\ []C6_State
    /\ [][(pc = "matched" /\ matched_pages = <<>>) =>
             (pc' = "done" /\ LastMessage'.kind = "warning")]_vars

C6_Witness ==
    /\ pc = "done"
    /\ Called("find_pages_with_keywords")
    /\ matched_pages = <<>>
    /\ LastMessage = Msg("warning", "No pages found containing all the specified keywords.")

\* The extraction returned and its tables were filtered.
Filtered == pc \in {"filtered", "display"} \/ (pc = "done" /\ Called("camelot.read_pdf"))

\* C7: when no extracted grid is validated the run ends with a warning and
\* without a spreadsheet; a spreadsheet exists only with at least one
\* validated table, and has one sheet per validated table.
C7_NoEmptySpreadsheet ==
    /\ (Filtered /\ pc = "done" /\ valid_tables = <<>>) =>
          /\ LastMessage = Msg("warning",
                 "Found matching pages, but could not extract valid tables from them.")
          /\ workbook = <<>> /\ download = <<>> /\ ~Called("pd.ExcelWriter")
    /\ (Called("pd.ExcelWriter") \/ workbook # <<>> \/ download # <<>>) =>
          /\ Len(valid_tables) >= 1
          /\ Len(workbook) = Len(valid_tables)
          /\ download = workbook

\* Two grids extracted, both rejected.
C7_Witness ==
    /\ pc = "done"
    /\ Len(tables) = 2
    /\ valid_tables = <<>>
    /\ workbook = <<>>
    /\ LastMessage.kind = "warning"

\* vt is ts without the tables the validator rejects, in the order of ts.
IsFilterOf(vt, ts) ==
    LET idx == {i \in 1..Len(ts) : contains_numbers_and_text(ts[i])}
    IN  /\ Len(vt) = Cardinality(idx)
        /\ \A j \in 1..Len(vt) :
              \E i \in idx : /\ Cardinality({k \in idx : k <= i}) = j
                             /\ vt[j] = ts[i]

TablePrefix == <<"T", "a", "b", "l", "e", "_">>

\* name is "Table_" followed by the decimal numeral of i
IsTableName(name, i) ==
    /\ Len(name) > Len(TablePrefix)
    /\ SubSeq(name, 1, Len(TablePrefix)) = TablePrefix
    /\ LET num == SubSeq(name, Len(TablePrefix) + 1, Len(name))
       IN  /\ \A k \in 1..Len(num) : num[k] \in Digits
           /\ num[1] # "0"
           /\ DigitsValue(num, 0) = i

\* C8: the validated tables are the extracted grids that pass the
\* validator, in extraction order and with their cells unchanged, also after
\* the export; sheet i is named "Table_i" and holds validated table i.
C8_FilterAndSheetNames ==
    /\ Filtered => IsFilterOf(valid_tables, tables)
    /\ \A i \in 1..Len(workbook) :
          /\ IsTableName(workbook[i].name, i)
          /\ i <= Len(valid_tables)
          /\ workbook[i].data = ProcessDf(valid_tables[i])
    /\ shown # <<>> => shown = valid_tables

\* Two grids extracted, the first rejected: the second is sheet Table_1.
C8_Witness ==
    /\ pc = "done"
    /\ Len(tables) = 2
    /\ ~contains_numbers_and_text(tables[1])
    /\ valid_tables = <<tables[2]>>
    /\ Len(workbook) = 1
    /\ workbook[1].name = <<"T", "a", "b", "l", "e", "_", "1">>

\* C10: the temporary file exists only between its creation and the finally
\* clause; no later step and no end of a run sees it.
C10_TempFileRemoved ==
    /\ tmp_files # {} => pc \in {"try", "finally"}
    /\ pc \in {"filter", "filtered", "display", "done", "failed"} => tmp_files = {}

\* The extraction raised, and the run ended without the file.
C10_Witness ==
    /\ pc = "failed"
    /\ raised = "read_pdf"
    /\ Called("NamedTemporaryFile")
    /\ tmp_files = {}

====
